---- MODULE Spec2Model ----
(***************************************************************************)
(* A model of the indexing and search core of That_Search_Tool.py:         *)
(*   - IndexWorker.run (one scan pass per requested root) over a per-root  *)
(*     SQLite store, with stop(), the wall clock and the disk as           *)
(*     environment (specification SpecScan);                               *)
(*   - IndexBuilderPane's Start/Cancel handlers and the queued             *)
(*     root_done/all_done signals of its workers (specification SpecPane); *)
(*   - SearchWorker.run, the fan-in over the three providers               *)
(*     (specification SpecSearch).                                         *)
(***************************************************************************)
EXTENDS Integers, Sequences, FiniteSets, TLC

(***************************************************************************)
(* Bounds of the model.                                                    *)
(***************************************************************************)
\* The wall clock (time.time() in whole seconds) runs over 1..MaxTime.
MaxTime == 2
\* How many root passes the IndexWorker objects run one after another are
\* constructed for, over all of them.
MaxPasses == 2
\* How many files the environment deletes from disk.
MaxDeletes == 1

\* BATCH of IndexWorker.run: a commit every BATCH scanned entries.  The source
\* sets 800; the model scales it to the size of its directory trees so that
\* batch commits happen inside a pass.
BATCH == 2

(***************************************************************************)
(* The disk.  Every root holds the same small tree:                        *)
(*     <root>/d/        a directory, always present                        *)
(*     <root>/d/f2      a file                                             *)
(*     <root>/f1        a file                                             *)
(* Paths are sequences of components; a row's path is the root's own path  *)
(* followed by the entry's components, as os.path.join builds entry.path.  *)
(***************************************************************************)
Roots == {"A", "B"}
\* The table of IndexBuilderPane lists its rows in a fixed order.
TableOrder == <<"A", "B">>
FileNames == {"f1", "f2"}

\* os.scandir(d) for the directory with relative path rel of a root whose
\* files on disk are fs: the entries in listing order, as relative paths.
ScanDir(rel, fs) ==
    IF rel = <<>>
      THEN <<<<"d">>>> \o (IF "f1" \in fs THEN <<<<"f1">>>> ELSE <<>>)
      ELSE IF rel = <<"d">>
        THEN (IF "f2" \in fs THEN <<<<"d", "f2">>>> ELSE <<>>)
        ELSE <<>>

\* entry.is_dir(follow_symlinks=False)
IsDir(rel) == rel = <<"d">>

(***************************************************************************)
(* The store: one SQLite file per canonical root key, holding the rows of  *)
(* table files, keyed by (root, path), each with the pass_id of the pass   *)
(* that last wrote it.                                                     *)
(***************************************************************************)
\* os.path.normcase(os.path.normpath(root)) on the roots of the model.
CanonRoot(r) ==
    IF r \in {"A", "A/"} THEN "a" ELSE IF r = "B" THEN "b" ELSE r

\* index_db_path: the store file is named by the hash of the canonical key.
index_db_path(r) == CanonRoot(r)

Stores == {index_db_path(r) : r \in Roots}

Row(r, p, g) == [root |-> r, path |-> p, pass_id |-> g]

\* INSERT INTO files ... ON CONFLICT(root, path) DO UPDATE SET ..., pass_id
UpsertRows(rows, r, p, g) ==
    {x \in rows : ~(x.root = r /\ x.path = p)} \cup {Row(r, p, g)}

\* db.total_changes - before, for one upsert: SQLite counts the row of an
\* INSERT and the row of an ON CONFLICT DO UPDATE alike, whether or not the
\* new values differ from the stored ones.
UpsertChanges(rows, r, p, g) == 1

\* A pruning that keeps the rows of earlier passes.
PruneNothing(rows, g) == rows

\* DELETE FROM files WHERE pass_id <> ?  (no restriction to the root)
PruneRows(rows, g) == {x \in rows : x.pass_id = g}

\* Reading the flag as always clear.
CompletedAlways(stopFlag) == TRUE

\* completed = not bool(getattr(self, "_stop", False))
Completed(stopFlag) == ~stopFlag

\* The rows of root r in a set of rows, and their keys.
RowsOf(rows, r) == {x \in rows : x.root = r}
PathsOf(rows, r) == {x.path : x \in RowsOf(rows, r)}
KeysOf(rows) == {<<x.root, x.path>> : x \in rows}

VARIABLES
    \* ---- environment of the indexer
    now,        \* int(time.time())
    disk,       \* disk[r]: the files present under root r
    deleted,    \* how many files were deleted so far
    \* ---- the stores
    store,      \* store[s]: the committed rows of store file s
    \* ---- the running IndexWorker
    passes,     \* root passes the workers so far were constructed for
    w_roots,    \* self.roots
    w_idx,      \* position of the for loop in self.roots
    w_pc,       \* where run() stands
    w_stop,     \* self._stop
    w_pass,     \* current_pass
    w_scanned,  \* scanned_count
    w_updated,  \* updated_count
    w_stack,    \* the open os.scandir iterators of the _scan_dir recursion
    w_completed,\* completed
    conn,       \* rows as the open connection db sees them (its transaction)
    events,     \* the signals the worker emitted, in order
    \* ---- history of the passes (not program state)
    sawStop,    \* a read of _stop returned True during the current pass
    upserted,   \* paths upserted by the current pass
    lastN,      \* lastN[r]: rows of r after its last completed pass, 0: none
    delsSince,  \* delsSince[r]: files of r deleted since that pass ended
    delsBefore, \* delsSince of the current root when the current pass began
    lastGen     \* lastGen[r]: the newest generation used for r, 0: none

scanVars == <<now, disk, deleted, store, passes, w_roots, w_idx, w_pc, w_stop,
              w_pass, w_scanned, w_updated, w_stack, w_completed, conn,
              events, sawStop, upserted, lastN, delsSince, delsBefore,
              lastGen>>

VARIABLES
    \* ---- IndexBuilderPane and the workers it starts
    p_indexing, \* self._indexing_roots
    p_start,    \* btn_start is enabled
    p_cancel,   \* btn_cancel is enabled
    p_worker,   \* self.worker: the worker started last, 0: None
    pw,         \* pw[w]: worker w's roots, loop position, place and _stop
    queue       \* the workers' signals queued for the GUI thread, in order

paneVars == <<p_indexing, p_start, p_cancel, p_worker, pw, queue>>

VARIABLES
    \* ---- the SearchWorker: its arguments
    s_lim,      \* self.limit
    s_use,      \* use_qi, use_win, use_crawl
    \* ---- the SearchWorker: run()
    s_pc,       \* where run() stands
    s_stage,    \* the stage run() is at, as an index of Stages
    s_abort,    \* self._abort
    s_rows,     \* rows
    s_seen,     \* seen
    s_batch,    \* batch of the stage run() is in
    s_cur,      \* the row the stage's generator yielded last
    s_n,        \* hits the stage's provider has handed over so far
    s_chunks,   \* the lists emitted on chunk, in order
    s_done,     \* the lists emitted on done, in order
    s_errors,   \* how many times error was emitted
    \* ---- history of the search (not program state)
    s_dropped,  \* the rows add_row turned down
    s_abortSeenAt, \* chunks emitted when _abort was first read as set, -1: never
    s_rowHit,   \* s_rowHit[i]: which hit of its provider the row rows[i] was
    s_log       \* s_log[st]: stage st was not entered, ran, or its provider raised

searchVars == <<s_lim, s_use, s_pc, s_stage, s_abort, s_rows, s_rowHit, s_seen,
                s_batch, s_cur, s_n, s_chunks, s_done, s_errors, s_dropped,
                s_abortSeenAt, s_log>>

VARIABLES
    \* ---- IndexedProvider.search over one store
    q_files,    \* q_files[name]: mtime of the store's row for the name, 0: no row
    q_pc,       \* "build": the store is being filled, "searched": search() returned
    q_query,    \* query
    q_limit,    \* limit
    q_hits      \* the list search() returned

queryVars == <<q_files, q_pc, q_query, q_limit, q_hits>>

VARIABLES
    \* ---- the root registry index_roots.json
    reg,        \* the list under "roots" of the file
    \* ---- history of the registry (not program state)
    r_merged    \* a write met a record of its key under another spelling

regVars == <<reg, r_merged>>

VARIABLES
    \* ---- the passes over one folder, given under either of its spellings
    a_now,      \* int(time.time())
    a_store,    \* the committed rows of the folder's store file
    a_meta,     \* the store's meta entry last_full_scan, 0: no entry
    a_last,     \* COL_LAST of the folder's table row, as the registry holds it
    a_root,     \* root: the display string the pass was started with
    a_pc,       \* where the pass stands
    a_stop,     \* self._stop
    a_pass,     \* current_pass
    a_scanned,  \* scanned_count
    a_completed,\* completed
    a_conn,     \* rows as the open connection db sees them
    \* ---- history of the pass (not program state)
    a_nostat,   \* the paths whose entry.stat raised during the pass
    a_metaWas,  \* a_meta when the pass began
    a_lastWas   \* a_last when the pass began

passVars == <<a_now, a_store, a_meta, a_last, a_root, a_pc, a_stop, a_pass,
              a_scanned, a_completed, a_conn, a_nostat, a_metaWas, a_lastWas>>

VARIABLES
    \* ---- one call of WindowsSearchProvider.search or CrawlProvider.search
    k_pc,       \* "idle", "win": the host search runs, "crawl", "returned"
    k_via,      \* the provider the caller called: "win" or "crawl"
    k_limit,    \* limit, as the caller gave it
    k_allowed,  \* allowed_roots (roots, for a CrawlProvider), <<>>: None
    k_hits,     \* hits of WindowsSearchProvider.search
    k_croots,   \* self.roots of the CrawlProvider
    k_climit,   \* limit of CrawlProvider.search
    k_thr,      \* k_thr[r]: the walker thread of root r, its place and matches
    k_results,  \* results, the list the walker threads share
    k_out,      \* the list the call returned
    k_raised,   \* the call raised instead of returning
    \* ---- history of the call (not program state)
    k_failed    \* the host search failed during the call

crawlVars == <<k_pc, k_via, k_limit, k_allowed, k_hits, k_croots, k_climit,
               k_thr, k_results, k_out, k_raised, k_failed>>

VARIABLES
    \* ---- FileSearchPane and the SearchWorkers run_search starts
    f_model,    \* self.model.rows, each row as the number of its worker
    f_worker,   \* self.worker, 0: None
    f_uworker,  \* self._worker, 0: not set
    f_w,        \* f_w[w]: worker w's place, its _abort and the chunks it emitted
    \* ---- history of the pane (not program state)
    f_cancelled \* the workers that were running when cancel_search was invoked

findVars == <<f_model, f_worker, f_uworker, f_w, f_cancelled>>

VARIABLES
    \* ---- IndexedProvider.search over the stores of several roots
    x_reg,      \* x_reg[r]: root r's registry record: enabled, disabled, absent
    x_store,    \* x_store[r]: mtimes of the rows of r's store file, {}: no file
    x_pc,       \* "build": stores and registry change, "searched"
    x_allowed,  \* allowed_roots, <<>>: None
    x_limit,    \* limit
    x_hits      \* the list search() returned

storesVars == <<x_reg, x_store, x_pc, x_allowed, x_limit, x_hits>>

VARIABLES
    \* ---- one root of the Index Builder table and its registry record
    t_file,     \* the list under "roots" of index_roots.json
    t_checked,  \* the check box of the root's table row
    t_rows,     \* SELECT COUNT(*) FROM files of the root's store
    t_upd,      \* updated_count of the root's last pass
    t_pc,       \* "none": no row, "row", "done": root_done handled, "read"
    t_read      \* what read_index_roots_json returned last

tripVars == <<t_file, t_checked, t_rows, t_upd, t_pc, t_read>>

vars == <<scanVars, paneVars, searchVars, queryVars, regVars, passVars,
          crawlVars, findVars, storesVars, tripVars>>

\* What the steps of each component leave alone.
notScan == <<paneVars, searchVars, queryVars, regVars, passVars, crawlVars,
             findVars, storesVars, tripVars>>
notPane == <<scanVars, searchVars, queryVars, regVars, passVars, crawlVars,
             findVars, storesVars, tripVars>>
notSearch == <<scanVars, paneVars, queryVars, regVars, passVars, crawlVars,
               findVars, storesVars, tripVars>>
notQuery == <<scanVars, paneVars, searchVars, regVars, passVars, crawlVars,
              findVars, storesVars, tripVars>>
notReg == <<scanVars, paneVars, searchVars, queryVars, passVars, crawlVars,
            findVars, storesVars, tripVars>>
notPass == <<scanVars, paneVars, searchVars, queryVars, regVars, crawlVars,
             findVars, storesVars, tripVars>>
notCrawl == <<scanVars, paneVars, searchVars, queryVars, regVars, passVars,
              findVars, storesVars, tripVars>>
notFind == <<scanVars, paneVars, searchVars, queryVars, regVars, passVars,
             crawlVars, storesVars, tripVars>>
notStores == <<scanVars, paneVars, searchVars, queryVars, regVars, passVars,
               crawlVars, findVars, tripVars>>
notTrip == <<scanVars, paneVars, searchVars, queryVars, regVars, passVars,
             crawlVars, findVars, storesVars>>

\* The root the for loop of run() is at.
CurRoot == w_roots[w_idx]

Ev(e, r, s, u) == [ev |-> e, root |-> r, scanned |-> s, updated |-> u]

InitScan ==
    /\ now = 1
    /\ disk = [r \in Roots |-> FileNames]
    /\ deleted = 0
    /\ store = [s \in Stores |-> {}]
    /\ passes = 0
    /\ w_roots = <<>>
    /\ w_idx = 1
    /\ w_pc = "none"
    /\ w_stop = FALSE
    /\ w_pass = 0
    /\ w_scanned = 0
    /\ w_updated = 0
    /\ w_stack = <<>>
    /\ w_completed = FALSE
    /\ conn = {}
    /\ events = <<>>
    /\ sawStop = FALSE
    /\ upserted = {}
    /\ lastN = [r \in Roots |-> 0]
    /\ delsSince = [r \in Roots |-> 0]
    /\ delsBefore = 0
    /\ lastGen = [r \in Roots |-> 0]

(***************************************************************************)
(* The environment of the indexer.                                         *)
(***************************************************************************)
\* One second of wall-clock time passes.  run() reads the clock into
\* current_pass at the head of a pass only, so the seconds that pass during a
\* pass are taken to pass right after it.
Tick ==
    /\ now < MaxTime
    /\ w_pc \in {"none", "finished", "loop"}
    /\ now' = now + 1
    /\ UNCHANGED <<disk, deleted, store, passes, w_roots, w_idx, w_pc, w_stop,
                   w_pass, w_scanned, w_updated, w_stack, w_completed, conn,
                   events, sawStop, upserted, lastN, delsSince, delsBefore,
                   lastGen>>
    /\ UNCHANGED notScan

\* A file under root r is deleted on disk.
DeleteFile(r, f) ==
    /\ deleted < MaxDeletes
    /\ f \in disk[r]
    /\ disk' = [disk EXCEPT ![r] = @ \ {f}]
    /\ deleted' = deleted + 1
    /\ delsSince' = [delsSince EXCEPT ![r] = @ + 1]
    /\ UNCHANGED <<now, store, passes, w_roots, w_idx, w_pc, w_stop, w_pass,
                   w_scanned, w_updated, w_stack, w_completed, conn, events,
                   sawStop, upserted, lastN, delsBefore, lastGen>>
    /\ UNCHANGED notScan

\* The lists of checked table rows an IndexWorker is constructed with.
RootLists == {<<"A">>, <<"B">>, <<"A", "B">>}

\* IndexWorker(roots).start(), once the previous worker has returned.
StartWorker(rs) ==
    /\ w_pc \in {"none", "finished"}
    /\ passes + Len(rs) <= MaxPasses
    /\ passes' = passes + Len(rs)
    /\ w_roots' = rs
    /\ w_idx' = 1
    /\ w_stop' = FALSE
    /\ w_pc' = "loop"
    /\ events' = <<>>
    /\ UNCHANGED <<now, disk, deleted, store, w_pass, w_scanned, w_updated,
                   w_stack, w_completed, conn, sawStop, upserted, lastN,
                   delsSince, delsBefore, lastGen>>
    /\ UNCHANGED notScan

\* IndexWorker.stop(), from another thread, while run() is executing.
Stop ==
    /\ w_pc \notin {"none", "finished"}
    /\ ~w_stop
    /\ w_stop' = TRUE
    /\ UNCHANGED <<now, disk, deleted, store, passes, w_roots, w_idx, w_pc,
                   w_pass, w_scanned, w_updated, w_stack, w_completed, conn,
                   events, sawStop, upserted, lastN, delsSince, delsBefore,
                   lastGen>>
    /\ UNCHANGED notScan

(***************************************************************************)
(* IndexWorker.run                                                         *)
(***************************************************************************)
\* The for loop ends (no root left, or _stop read as set: break), and
\* all_done is emitted.
EmitAllDone ==
    /\ w_pc = "loop"
    /\ w_idx > Len(w_roots) \/ w_stop
    /\ events' = Append(events, Ev("all_done", "", 0, 0))
    /\ w_pc' = "finished"
    /\ UNCHANGED <<now, disk, deleted, store, passes, w_roots, w_idx, w_stop,
                   w_pass, w_scanned, w_updated, w_stack, w_completed, conn,
                   sawStop, upserted, lastN, delsSince, delsBefore, lastGen>>
    /\ UNCHANGED notScan

\* The head of one iteration: root_started, the store is opened, the counters
\* and current_pass are set, the root's own row is upserted and
\* _scan_dir(root) opens os.scandir(root).
BeginRoot ==
    /\ w_pc = "loop"
    /\ w_idx <= Len(w_roots)
    /\ ~w_stop
    /\ LET r == CurRoot
           s == index_db_path(r)
       IN /\ events' = Append(events, Ev("root_started", r, 0, 0))
          /\ w_pass' = now
          /\ conn' = UpsertRows(store[s], r, <<r>>, now)
          /\ w_updated' = UpsertChanges(store[s], r, <<r>>, now)
          /\ w_scanned' = 1
          /\ w_stack' = <<ScanDir(<<>>, disk[r])>>
          /\ upserted' = {<<r>>}
          /\ delsBefore' = delsSince[r]
    /\ sawStop' = FALSE
    /\ w_completed' = FALSE
    /\ w_pc' = "scan"
    /\ UNCHANGED <<now, disk, deleted, store, passes, w_roots, w_idx, w_stop,
                   lastN, delsSince, lastGen>>
    /\ UNCHANGED notScan

\* Opening the store of the next root raises (index_db_path or
\* ensure_quick_index_db: the file is locked, unwritable, corrupt): the
\* exception leaves the for loop and the handler around it emits error.
OpenRaises ==
    /\ w_pc = "loop"
    /\ w_idx <= Len(w_roots)
    /\ ~w_stop
    /\ events' = events \o <<Ev("root_started", CurRoot, 0, 0),
                             Ev("error", CurRoot, 0, 0)>>
    /\ w_pc' = "finished"
    /\ UNCHANGED <<now, disk, deleted, store, passes, w_roots, w_idx, w_stop,
                   w_pass, w_scanned, w_updated, w_stack, w_completed, conn,
                   sawStop, upserted, lastN, delsSince, delsBefore, lastGen>>
    /\ UNCHANGED notScan

\* _scan_dir: the loop over the entries of the innermost open directory reads
\* _stop as set and returns.
ScanSeeStop ==
    /\ w_pc = "scan"
    /\ w_stack # <<>>
    /\ Head(w_stack) # <<>>
    /\ w_stop
    /\ sawStop' = TRUE
    /\ w_stack' = Tail(w_stack)
    /\ UNCHANGED <<now, disk, deleted, store, passes, w_roots, w_idx, w_pc,
                   w_stop, w_pass, w_scanned, w_updated, w_completed, conn,
                   events, upserted, lastN, delsSince, delsBefore, lastGen>>
    /\ UNCHANGED notScan

\* _scan_dir: one entry is upserted and counted, the batch is committed when
\* scanned_count reaches a multiple of BATCH, and a directory is entered.
ScanEntry ==
    /\ w_pc = "scan"
    /\ w_stack # <<>>
    /\ Head(w_stack) # <<>>
    /\ ~w_stop
    /\ LET r == CurRoot
           s == index_db_path(r)
           rel == Head(Head(w_stack))
           path == <<r>> \o rel
           rows == UpsertRows(conn, r, path, w_pass)
           rest == <<Tail(Head(w_stack))>> \o Tail(w_stack)
       IN /\ conn' = rows
          /\ w_updated' = w_updated + UpsertChanges(conn, r, path, w_pass)
          /\ w_scanned' = w_scanned + 1
          /\ store' = IF (w_scanned + 1) % BATCH = 0
                        THEN [store EXCEPT ![s] = rows]
                        ELSE store
          /\ w_stack' = IF IsDir(rel)
                          THEN <<ScanDir(rel, disk[r])>> \o rest
                          ELSE rest
          /\ upserted' = upserted \cup {path}
    /\ UNCHANGED <<now, disk, deleted, passes, w_roots, w_idx, w_pc, w_stop,
                   w_pass, w_completed, events, sawStop, lastN, delsSince,
                   delsBefore, lastGen>>
    /\ UNCHANGED notScan

\* An upsert or a batch commit raises sqlite3.Error, which _scan_dir does not
\* catch (it catches OSError only): the exception leaves the for loop, the
\* connection is dropped with its open transaction, and error is emitted.
UpsertRaises ==
    /\ w_pc = "scan"
    /\ w_stack # <<>>
    /\ Head(w_stack) # <<>>
    /\ ~w_stop
    /\ conn' = {}
    /\ events' = Append(events, Ev("error", CurRoot, 0, 0))
    /\ w_pc' = "finished"
    /\ UNCHANGED <<now, disk, deleted, store, passes, w_roots, w_idx, w_stop,
                   w_pass, w_scanned, w_updated, w_stack, w_completed,
                   sawStop, upserted, lastN, delsSince, delsBefore, lastGen>>
    /\ UNCHANGED notScan

\* _scan_dir: the entries of the innermost open directory are exhausted.
ScanDirEnd ==
    /\ w_pc = "scan"
    /\ w_stack # <<>>
    /\ Head(w_stack) = <<>>
    /\ w_stack' = Tail(w_stack)
    /\ UNCHANGED <<now, disk, deleted, store, passes, w_roots, w_idx, w_pc,
                   w_stop, w_pass, w_scanned, w_updated, w_completed, conn,
                   events, sawStop, upserted, lastN, delsSince, delsBefore,
                   lastGen>>
    /\ UNCHANGED notScan

\* _scan_dir(root) has returned: completed = not self._stop.
FinalizeCheck ==
    /\ w_pc = "scan"
    /\ w_stack = <<>>
    /\ w_completed' = Completed(w_stop)
    /\ sawStop' = (sawStop \/ w_stop)
    /\ w_pc' = "finalize"
    /\ UNCHANGED <<now, disk, deleted, store, passes, w_roots, w_idx, w_stop,
                   w_pass, w_scanned, w_updated, w_stack, conn, events,
                   upserted, lastN, delsSince, delsBefore, lastGen>>
    /\ UNCHANGED notScan

\* The finalization of the root: when completed, the rows of other passes are
\* deleted and the transaction is committed (the rebuild of files_fts changes
\* no row of files); in every case the connection is closed, which drops what
\* it has not committed.
FinalizeRoot ==
    /\ w_pc = "finalize"
    /\ LET s == index_db_path(CurRoot)
       IN store' = IF w_completed
                     THEN [store EXCEPT ![s] = PruneRows(conn, w_pass)]
                     ELSE store
    /\ conn' = {}
    /\ w_pc' = "emit"
    /\ UNCHANGED <<now, disk, deleted, passes, w_roots, w_idx, w_stop, w_pass,
                   w_scanned, w_updated, w_stack, w_completed, events,
                   sawStop, upserted, lastN, delsSince, delsBefore, lastGen>>
    /\ UNCHANGED notScan

Max(a, b) == IF a >= b THEN a ELSE b

\* root_done(root, scanned, updated, elapsed) is emitted and the loop moves on.
EmitRootDone ==
    /\ w_pc = "emit"
    /\ LET r == CurRoot
           s == index_db_path(r)
       IN /\ events' = Append(events, Ev("root_done", r, w_scanned, w_updated))
          /\ lastGen' = [lastGen EXCEPT ![r] = Max(@, w_pass)]
          /\ lastN' = IF w_completed
                        THEN [lastN EXCEPT ![r] =
                                IF delsSince[r] = delsBefore
                                  THEN Cardinality(RowsOf(store[s], r))
                                  ELSE 0]
                        ELSE lastN
          /\ delsSince' = IF w_completed
                            THEN [delsSince EXCEPT ![r] = 0]
                            ELSE delsSince
    /\ w_idx' = w_idx + 1
    /\ w_pc' = "loop"
    /\ UNCHANGED <<now, disk, deleted, store, passes, w_roots, w_stop, w_pass,
                   w_scanned, w_updated, w_stack, w_completed, conn, sawStop,
                   upserted, delsBefore>>
    /\ UNCHANGED notScan

NextScan ==
    \/ Tick
    \/ \E r \in Roots, f \in FileNames : DeleteFile(r, f)
    \/ \E rs \in RootLists : StartWorker(rs)
    \/ Stop
    \/ EmitAllDone
    \/ BeginRoot
    \/ OpenRaises
    \/ ScanSeeStop
    \/ ScanEntry
    \/ UpsertRaises
    \/ ScanDirEnd
    \/ FinalizeCheck
    \/ FinalizeRoot
    \/ EmitRootDone

(***************************************************************************)
(* IndexBuilderPane: the Start and Cancel buttons, and the slots run by     *)
(* the GUI thread for the signals of the workers it started.  A worker is   *)
(* followed here from root to root: root_started, the pass over the root    *)
(* (scan and finalization, during which it writes the root's store),        *)
(* root_done, and all_done or error at the end.  Signals emitted by a       *)
(* worker thread reach the pane's slots through the GUI thread's event      *)
(* queue, in the order of their emission.                                   *)
(***************************************************************************)
\* How many IndexWorker objects the pane creates.
MaxWorkers == 3
Workers == 1..MaxWorkers

\* _selected_paths_to_index: the checked rows, in table order.
SelectedPaths(S) == SelectSeq(TableOrder, LAMBDA r : r \in S)

\* checked_paths = [p for p in checked_paths if p not in self._indexing_roots]
FreshPaths(paths, indexing) == SelectSeq(paths, LAMBDA r : r \notin indexing)

Range(q) == {q[i] : i \in 1..Len(q)}

Sig(e, r, w) == [ev |-> e, root |-> r, w |-> w]

InitPane ==
    /\ p_indexing = {}
    /\ p_start = TRUE
    /\ p_cancel = FALSE
    /\ p_worker = 0
    /\ pw = [w \in Workers |->
               [roots |-> <<>>, idx |-> 1, pc |-> "new", stop |-> FALSE]]
    /\ queue = <<>>

\* _start_index, by a click on the enabled Start button with the rows of S
\* checked.  The checked roots that are in _indexing_roots are reported in a
\* message box and left out; the others make the roots of a new worker.
StartIndex(S) ==
    /\ p_start
    /\ S # {}
    /\ LET checked == SelectedPaths(S)
           fresh == FreshPaths(checked, p_indexing)
       IN IF fresh = <<>>
            THEN UNCHANGED <<p_indexing, p_start, p_cancel, p_worker, pw>>
            ELSE \E w \in Workers :
                   /\ pw[w].pc = "new"
                   /\ \A v \in Workers : v < w => pw[v].pc # "new"
                   /\ p_indexing' = p_indexing \cup Range(fresh)
                   /\ p_start' = FALSE
                   /\ p_cancel' = TRUE
                   /\ p_worker' = w
                   /\ pw' = [pw EXCEPT ![w] =
                               [roots |-> fresh, idx |-> 1, pc |-> "loop",
                                stop |-> FALSE]]
    /\ UNCHANGED queue
    /\ UNCHANGED notPane

\* _cancel_index, by a click on the enabled Cancel button.
CancelIndex ==
    /\ p_cancel
    /\ pw' = IF p_worker # 0
               THEN [pw EXCEPT ![p_worker].stop = TRUE]
               ELSE pw
    /\ p_start' = TRUE
    /\ p_cancel' = FALSE
    /\ UNCHANGED <<p_indexing, p_worker, queue>>
    /\ UNCHANGED notPane

\* Worker w, at the head of its loop: root_started, and the pass begins.
PW_BeginRoot(w) ==
    /\ pw[w].pc = "loop"
    /\ pw[w].idx <= Len(pw[w].roots)
    /\ ~pw[w].stop
    /\ pw' = [pw EXCEPT ![w].pc = "scanning"]
    /\ UNCHANGED <<p_indexing, p_start, p_cancel, p_worker, queue>>
    /\ UNCHANGED notPane

\* Worker w ends the pass over its root, completed or cancelled: the store is
\* closed and root_done is emitted.
PW_EndRoot(w) ==
    /\ pw[w].pc = "scanning"
    /\ queue' = Append(queue, Sig("root_done", pw[w].roots[pw[w].idx], w))
    /\ pw' = [pw EXCEPT ![w].pc = "loop", ![w].idx = @ + 1]
    /\ UNCHANGED <<p_indexing, p_start, p_cancel, p_worker>>
    /\ UNCHANGED notPane

\* Worker w's pass raises: error is emitted and run() returns.  The slot of
\* error shows a message box and changes nothing of the pane, so the signal is
\* not followed through the queue.
PW_Raises(w) ==
    /\ pw[w].pc = "scanning"
    /\ pw' = [pw EXCEPT ![w].pc = "finished"]
    /\ UNCHANGED <<p_indexing, p_start, p_cancel, p_worker, queue>>
    /\ UNCHANGED notPane

\* Worker w leaves its loop (no root left, or _stop set) and emits all_done.
PW_AllDone(w) ==
    /\ pw[w].pc = "loop"
    /\ pw[w].idx > Len(pw[w].roots) \/ pw[w].stop
    /\ queue' = Append(queue, Sig("all_done", "", w))
    /\ pw' = [pw EXCEPT ![w].pc = "finished"]
    /\ UNCHANGED <<p_indexing, p_start, p_cancel, p_worker>>
    /\ UNCHANGED notPane

\* The slots of root_done: _on_root_done (the table row and the registry
\* file), then the lambda that discards the root from _indexing_roots.
OnRootDone ==
    /\ queue # <<>>
    /\ Head(queue).ev = "root_done"
    /\ p_indexing' = p_indexing \ {Head(queue).root}
    /\ queue' = Tail(queue)
    /\ UNCHANGED <<p_start, p_cancel, p_worker, pw>>
    /\ UNCHANGED notPane

\* The slots of all_done: _on_all_done (the buttons), then the lambda that
\* clears _indexing_roots.
OnAllDone ==
    /\ queue # <<>>
    /\ Head(queue).ev = "all_done"
    /\ p_start' = TRUE
    /\ p_cancel' = FALSE
    /\ p_indexing' = {}
    /\ queue' = Tail(queue)
    /\ UNCHANGED <<p_worker, pw>>
    /\ UNCHANGED notPane

NextPane ==
    \/ \E S \in SUBSET Roots : StartIndex(S)
    \/ CancelIndex
    \/ \E w \in Workers : PW_BeginRoot(w)
    \/ \E w \in Workers : PW_EndRoot(w)
    \/ \E w \in Workers : PW_Raises(w)
    \/ \E w \in Workers : PW_AllDone(w)
    \/ OnRootDone
    \/ OnAllDone

(***************************************************************************)
(* SearchWorker: the fan-in over the index store, the host search and the   *)
(* live crawl.  Paths are sequences of characters, so that the key under    *)
(* which add_row de-duplicates is computed as ntpath computes it.           *)
(***************************************************************************)
\* How many hits one provider hands over in one search.
MaxHits == 2
\* The largest limit a search is started with.
MaxLimit == 3

\* feed() emits its batch when it holds 100 rows, and the index stage emits
\* the first 200 of its rows.  The model scales both to the number of hits a
\* provider of the model hands over.
FEED_CHUNK == 2
QI_CHUNK == 1

\* The paths the providers of the model report: spellings of the directory
\* x and of the file x\y that differ in letter case, in the separator, in
\* repeated separators and in a trailing separator.
Paths == { <<"x">>, <<"X", "/">>,
           <<"x", "/", "y">>, <<"X", "\\", "\\", "Y">> }

\* The providers in the order run() consults them, and the source column of
\* their rows.
Stages == <<"qi", "win", "crawl">>
SourceOf(st) == IF st = "qi" THEN "Index"
                ELSE IF st = "win" THEN "Windows" ELSE "Crawl"

IsSep(c) == c \in {"/", "\\"}
Lower(c) == IF c = "X" THEN "x" ELSE IF c = "Y" THEN "y" ELSE c

\* The components of a path: the maximal runs without a separator.
RECURSIVE Comps(_, _)
Comps(p, cur) ==
    IF p = <<>>
      THEN (IF cur = <<>> THEN <<>> ELSE <<cur>>)
      ELSE IF IsSep(Head(p))
        THEN (IF cur = <<>> THEN <<>> ELSE <<cur>>) \o Comps(Tail(p), <<>>)
        ELSE Comps(Tail(p), Append(cur, Head(p)))

RECURSIVE JoinComps(_)
JoinComps(cs) ==
    IF cs = <<>> THEN <<>>
    ELSE IF Len(cs) = 1 THEN cs[1]
    ELSE cs[1] \o <<"\\">> \o JoinComps(Tail(cs))

\* os.path.normpath (ntpath) on a path without drive, "." or "..": the
\* separators become backslashes, empty components go, a leading separator
\* stays, and the empty result is ".".
normpath(p) ==
    LET prefix == IF p # <<>> /\ IsSep(p[1]) THEN <<"\\">> ELSE <<>>
        body == JoinComps(Comps(p, <<>>))
    IN IF prefix \o body = <<>> THEN <<".">> ELSE prefix \o body

\* os.path.normcase (ntpath): "/" becomes "\" and letters are lowered.
normcase(p) == [i \in 1..Len(p) |-> IF p[i] = "/" THEN "\\" ELSE Lower(p[i])]

\* str.rstrip("\\/")
RECURSIVE rstrip(_)
rstrip(p) ==
    IF p # <<>> /\ IsSep(p[Len(p)]) THEN rstrip(SubSeq(p, 1, Len(p) - 1)) ELSE p

\* A key that tells spellings of different letter case apart.
add_row_key_exact(path) == rstrip(normpath(path))

\* key = os.path.normcase(os.path.normpath(r[6])).rstrip("\\/")
add_row_key(path) == rstrip(normcase(normpath(path)))

\* _hit_to_row: of the seven columns the model keeps source and path.
hit_to_row(source, path) == [source |-> source, path |-> path]

\* lim = max(0, int(self.limit))
Lim(limit) == IF limit < 0 THEN 0 ELSE limit

\* rows[:n] for n >= 0
FirstN(rows, n) == SubSeq(rows, 1, IF n < Len(rows) THEN n ELSE Len(rows))

\* A row put in front of the rows gathered.
rows_prepend(rows, r) == <<r>> \o rows

\* rows.append(r)
rows_append(rows, r) == Append(rows, r)

\* A final result that is every row gathered.
done_rows_all(rows, lim) == rows

\* self.done.emit(rows[:lim])
done_rows(rows, lim) == FirstN(rows, lim)

\* The variable for the yielded row when no row is at hand.
NoRow == [source |-> "", path |-> <<>>]

Bool3 == [{"qi", "win", "crawl"} -> BOOLEAN]

InitSearch ==
    /\ s_lim = 0
    /\ s_use = [st \in {"qi", "win", "crawl"} |-> FALSE]
    /\ s_pc = "idle"
    /\ s_stage = 1
    /\ s_abort = FALSE
    /\ s_rows = <<>>
    /\ s_rowHit = <<>>
    /\ s_seen = {}
    /\ s_batch = <<>>
    /\ s_cur = NoRow
    /\ s_n = 0
    /\ s_chunks = <<>>
    /\ s_done = <<>>
    /\ s_errors = 0
    /\ s_dropped = {}
    /\ s_abortSeenAt = -1
    /\ s_log = [st \in {"qi", "win", "crawl"} |-> "no"]

\* The stage run() is at.
CurStage == Stages[s_stage]

\* A read of _abort returns True: the history keeps how many chunks had been
\* emitted when that happened first.
SeeAbort ==
    s_abortSeenAt' = IF s_abortSeenAt < 0 THEN Len(s_chunks) ELSE s_abortSeenAt

\* Where run() goes when it is through with a stage: the gate of the next
\* stage, or the done signal after the last.  The stage's generator and the
\* batch of its loop are gone.
AfterStage ==
    /\ IF s_stage < Len(Stages)
         THEN s_pc' = "gate" /\ s_stage' = s_stage + 1
         ELSE s_pc' = "emit_done" /\ s_stage' = s_stage
    /\ s_n' = 0
    /\ s_batch' = <<>>
    /\ s_cur' = NoRow

\* The loop over a stage's generator has ended, by exhaustion or by break,
\* with rows and batch as given: the index stage emits the head of rows if
\* there are rows, feed() emits its batch if it holds any; then the next
\* stage.
EndLoop(rows, batch) ==
    /\ s_chunks' =
         IF CurStage = "qi"
           THEN (IF rows # <<>>
                   THEN Append(s_chunks, FirstN(rows, QI_CHUNK))
                   ELSE s_chunks)
           ELSE (IF batch # <<>> THEN Append(s_chunks, batch) ELSE s_chunks)
    /\ AfterStage

\* The exception leaves run() through its outer handler: no stage follows.
AfterRaiseAbandon ==
    /\ s_pc' = "finished"
    /\ UNCHANGED <<s_stage, s_n, s_batch, s_cur, s_chunks>>

\* Past the generator's `except Exception`: the generator ends without a
\* hit, and the loop over it ends as by exhaustion.
AfterRaise == EndLoop(s_rows, s_batch)

\* SearchWorker(query, use_win, use_qi, use_crawl, allowed_roots, limit) and
\* start(): run() begins.
S_Start(limit, use) ==
    /\ s_pc = "idle"
    /\ s_lim' = limit
    /\ s_use' = use
    /\ s_pc' = "gate"
    /\ UNCHANGED <<s_stage, s_abort, s_rows, s_rowHit, s_seen, s_batch, s_cur, s_n,
                   s_chunks, s_done, s_errors, s_dropped>>
    /\ UNCHANGED <<s_abortSeenAt, s_log>>
    /\ UNCHANGED notSearch

\* abort(), called from the GUI thread while run() is under way.
S_Abort ==
    /\ s_pc \notin {"idle", "finished"}
    /\ ~s_abort
    /\ s_abort' = TRUE
    /\ UNCHANGED <<s_lim, s_use, s_pc, s_stage, s_rows, s_rowHit, s_seen, s_batch,
                   s_cur, s_n, s_chunks, s_done, s_errors, s_dropped>>
    /\ UNCHANGED <<s_abortSeenAt, s_log>>
    /\ UNCHANGED notSearch

\* The condition before a stage: the provider is enabled, _abort is clear
\* and, for the stages after the index stage, rows is short of lim.
S_Gate ==
    /\ s_pc = "gate"
    /\ IF /\ s_use[CurStage]
          /\ ~s_abort
          /\ (CurStage = "qi" \/ Len(s_rows) < Lim(s_lim))
         THEN /\ s_pc' = "next"
              /\ s_n' = 0
              /\ s_batch' = <<>>
              /\ s_log' = [s_log EXCEPT ![CurStage] = "ran"]
              /\ UNCHANGED <<s_stage, s_cur>>
         ELSE AfterStage /\ UNCHANGED s_log
    /\ UNCHANGED <<s_lim, s_use, s_abort, s_rows, s_rowHit, s_seen, s_chunks, s_done,
                   s_errors, s_dropped>>
    /\ IF s_use[CurStage] /\ s_abort THEN SeeAbort ELSE UNCHANGED s_abortSeenAt
    /\ UNCHANGED notSearch

\* The stage's generator is resumed and its provider's search() raises, which
\* can only be before the first hit, the providers returning lists: the
\* generator emits error and ends, and with it the loop.
S_ProviderRaises ==
    /\ s_pc = "next"
    /\ s_n = 0
    /\ s_errors' = s_errors + 1
    /\ s_log' = [s_log EXCEPT ![CurStage] = "raised"]
    /\ AfterRaise
    /\ UNCHANGED <<s_lim, s_use, s_abort, s_rows, s_rowHit, s_seen, s_done, s_dropped>>
    /\ UNCHANGED s_abortSeenAt
    /\ UNCHANGED notSearch

\* The stage's generator is resumed and has no hit left: the loop ends.
S_Exhausted ==
    /\ s_pc = "next"
    /\ EndLoop(s_rows, s_batch)
    /\ UNCHANGED <<s_lim, s_use, s_abort, s_rows, s_rowHit, s_seen, s_done, s_errors,
                   s_dropped>>
    /\ UNCHANGED <<s_abortSeenAt, s_log>>
    /\ UNCHANGED notSearch

\* The stage's generator is resumed and has a hit with the given path: it
\* returns if _abort is set, which ends the loop, and yields the hit's row
\* otherwise.
S_Yield(path) ==
    /\ s_pc = "next"
    /\ s_n < MaxHits
    /\ IF s_abort
         THEN EndLoop(s_rows, s_batch)
         ELSE /\ s_n' = s_n + 1
              /\ s_cur' = hit_to_row(SourceOf(CurStage), path)
              /\ s_pc' = "body"
              /\ UNCHANGED <<s_stage, s_batch, s_chunks>>
    /\ UNCHANGED <<s_lim, s_use, s_abort, s_rows, s_rowHit, s_seen, s_done, s_errors,
                   s_dropped>>
    /\ IF s_abort THEN SeeAbort ELSE UNCHANGED s_abortSeenAt
    /\ UNCHANGED s_log
    /\ UNCHANGED notSearch

\* The body of the loop sees _abort set: the index stage breaks out of its
\* loop, feed() returns.
S_BodyAbort ==
    /\ s_pc = "body"
    /\ s_abort
    /\ IF CurStage = "qi"
         THEN EndLoop(s_rows, s_batch)
         ELSE AfterStage /\ UNCHANGED s_chunks
    /\ UNCHANGED <<s_lim, s_use, s_abort, s_rows, s_rowHit, s_seen, s_done, s_errors,
                   s_dropped>>
    /\ SeeAbort
    /\ UNCHANGED s_log
    /\ UNCHANGED notSearch

\* The body of the loop with _abort clear: add_row, the break at lim rows,
\* and in feed() the emission of a full batch.
S_Body ==
    /\ s_pc = "body"
    /\ ~s_abort
    /\ LET key == add_row_key(s_cur.path)
           added == key \notin s_seen
           rows == IF added THEN rows_append(s_rows, s_cur) ELSE s_rows
           batch == IF added THEN Append(s_batch, s_cur) ELSE s_batch
       IN /\ s_seen' = s_seen \cup {key}
          /\ s_rows' = rows
          /\ s_rowHit' = IF added THEN rows_append(s_rowHit, s_n) ELSE s_rowHit
          /\ s_dropped' = IF added THEN s_dropped ELSE s_dropped \cup {s_cur}
          /\ IF Len(rows) >= Lim(s_lim)
               THEN EndLoop(rows, batch)
               ELSE IF CurStage # "qi" /\ Len(batch) >= FEED_CHUNK
                 THEN /\ s_chunks' = Append(s_chunks, batch)
                      /\ s_batch' = <<>>
                      /\ s_pc' = "next"
                      /\ s_cur' = NoRow
                      /\ UNCHANGED <<s_stage, s_n>>
                 ELSE /\ s_batch' = batch
                      /\ s_pc' = "next"
                      /\ s_cur' = NoRow
                      /\ UNCHANGED <<s_stage, s_n, s_chunks>>
    /\ UNCHANGED <<s_lim, s_use, s_abort, s_done, s_errors, s_abortSeenAt,
                   s_log>>
    /\ UNCHANGED notSearch

\* self.done.emit(rows[:lim]), and run() returns.
S_EmitDone ==
    /\ s_pc = "emit_done"
    /\ s_done' = Append(s_done, done_rows(s_rows, Lim(s_lim)))
    /\ s_pc' = "finished"
    /\ UNCHANGED <<s_lim, s_use, s_stage, s_abort, s_rows, s_rowHit, s_seen, s_batch,
                   s_cur, s_n, s_chunks, s_errors, s_dropped>>
    /\ UNCHANGED <<s_abortSeenAt, s_log>>
    /\ UNCHANGED notSearch

NextSearch ==
    \/ \E limit \in (-1)..MaxLimit, use \in Bool3 : S_Start(limit, use)
    \/ S_Abort
    \/ S_Gate
    \/ S_ProviderRaises
    \/ S_Exhausted
    \/ \E path \in Paths : S_Yield(path)
    \/ S_BodyAbort
    \/ S_Body
    \/ S_EmitDone

(***************************************************************************)
(* IndexedProvider.search: the query of one store.  Names, paths, queries   *)
(* and LIKE patterns are sequences of characters.                           *)
(***************************************************************************)
\* The newest modification time of a row of the model.
MaxMtime == 2
\* The largest limit search() is called with.
MaxQLimit == 3

Str_motor == <<"m", "o", "t", "o", "r">>
Str_housing == <<"h", "o", "u", "s", "i", "n", "g">>
Str_pdf == <<"p", "d", "f">>
Name_motorhousing == Str_motor \o Str_housing \o
                     <<".", "s", "l", "d", "p", "r", "t">>
Name_housingmotor == Str_housing \o Str_motor \o <<".">> \o Str_pdf
Name_gear == <<"g", "e", "a", "r", ".">> \o Str_pdf
Name_Motor == <<"M", "o", "t", "o", "r", ".", "P", "D", "F">>

\* The names of the files a store of the model can hold, all in one folder.
QNames == {Name_motorhousing, Name_housingmotor, Name_gear, Name_Motor}
QDir == <<"c", ":", "\\", "p", "\\">>
QPath(name) == QDir \o name

\* The queries of the model: motor*, motor, *.pdf, "motor pdf" and the empty
\* query.
Query_motorStar == Str_motor \o <<"*">>
Queries == {Query_motorStar, Str_motor, <<"*", ".">> \o Str_pdf,
            Str_motor \o <<" ">> \o Str_pdf, <<>>}

\* re.findall(r'"[^"]+"|\S+', query) on a query without quotes: the maximal
\* runs without a blank.
RECURSIVE QTokens(_, _)
QTokens(q, cur) ==
    IF q = <<>>
      THEN (IF cur = <<>> THEN <<>> ELSE <<cur>>)
      ELSE IF Head(q) = " "
        THEN (IF cur = <<>> THEN <<>> ELSE <<cur>>) \o QTokens(Tail(q), <<>>)
        ELSE QTokens(Tail(q), Append(cur, Head(q)))

\* pat = f"%{t.replace('*','%').replace('?', '_')}%"
LikePattern(t) ==
    <<"%">> \o [i \in 1..Len(t) |-> IF t[i] = "*" THEN "%"
                                     ELSE IF t[i] = "?" THEN "_" ELSE t[i]]
            \o <<"%">>

\* The letters of the model, folded as LIKE and COLLATE NOCASE fold ASCII.
NoCase(c) == IF c = "M" THEN "m" ELSE IF c = "P" THEN "p"
             ELSE IF c = "D" THEN "d" ELSE IF c = "F" THEN "f" ELSE c

\* s LIKE pat in SQLite: % stands for any run of characters, _ for one
\* character, and letters match without regard to case.
RECURSIVE Like(_, _)
Like(pat, s) ==
    IF pat = <<>> THEN s = <<>>
    ELSE IF Head(pat) = "%"
      THEN Like(Tail(pat), s) \/ (s # <<>> /\ Like(pat, Tail(s)))
      ELSE /\ s # <<>>
           /\ Head(pat) = "_" \/ NoCase(Head(pat)) = NoCase(Head(s))
           /\ Like(Tail(pat), Tail(s))

\* The WHERE clause: for every token, name LIKE pat OR path LIKE pat; no
\* clause for a query without tokens.
QMatches(name, query) ==
    LET toks == QTokens(query, <<>>)
    IN \A i \in 1..Len(toks) :
          \/ Like(LikePattern(toks[i]), name)
          \/ Like(LikePattern(toks[i]), QPath(name))

\* The rows of the store, as FileHit(path, ..., mtime, "Index").
QHit(name, files) == [path |-> QPath(name), name |-> name,
                      mtime |-> files[name]]

\* SELECT ... WHERE ... ORDER BY mtime DESC LIMIT ?, and the loop that
\* appends the rows up to limit: every list the statement can return, rows
\* of equal mtime coming in any order.
QResults(files, query, limit) ==
    LET match == {n \in QNames : files[n] > 0 /\ QMatches(n, query)}
        k == IF limit < Cardinality(match) THEN limit ELSE Cardinality(match)
    IN {[i \in 1..k |-> QHit(f[i], files)] :
          f \in {g \in [1..k -> match] :
                   /\ \A i, j \in 1..k : i < j => g[i] # g[j]
                   /\ \A i, j \in 1..k : i < j => files[g[i]] >= files[g[j]]
                   /\ \A n \in match : \A i \in 1..k :
                         (\A j \in 1..k : g[j] # n) => files[g[i]] >= files[n]}}

InitQuery ==
    /\ q_files = [n \in QNames |-> 0]
    /\ q_pc = "build"
    /\ q_query = <<>>
    /\ q_limit = 0
    /\ q_hits = <<>>

\* The indexer has written the row of a file into the store.
Q_Index(name, mtime) ==
    /\ q_pc = "build"
    /\ q_files[name] = 0
    /\ q_files' = [q_files EXCEPT ![name] = mtime]
    /\ UNCHANGED <<q_pc, q_query, q_limit, q_hits>>
    /\ UNCHANGED notQuery

\* IndexedProvider().search(query, limit) over the store.
Q_Search(query, limit) ==
    /\ q_pc = "build"
    /\ q_pc' = "searched"
    /\ q_query' = query
    /\ q_limit' = limit
    /\ q_hits' \in QResults(q_files, query, limit)
    /\ UNCHANGED q_files
    /\ UNCHANGED notQuery

NextQuery ==
    \/ \E name \in QNames, mtime \in 1..MaxMtime : Q_Index(name, mtime)
    \/ \E query \in Queries, limit \in 0..MaxQLimit : Q_Search(query, limit)

(***************************************************************************)
(* The root registry: write_index_roots_json merges the records it is      *)
(* given into the list of the file.  A record is a function from keys to   *)
(* values, as the dict it is; paths are sequences of characters.           *)
(***************************************************************************)
\* The largest files_count and updated_count of a record given to a write.
MaxCount == 1

\* The display strings of the roots: spellings of the folders x and y, and a
\* blank string.
RegPaths == { <<"x">>, <<"X", "/">>, <<"x", " ">>, <<"y">>, <<" ">> }

\* The values of last_full_scan: None, or a time stamp.
Stamps == {"None", "t1"}

\* str.strip()
RECURSIVE strip(_)
strip(p) ==
    IF p # <<>> /\ Head(p) = " " THEN strip(Tail(p))
    ELSE IF p # <<>> /\ p[Len(p)] = " " THEN strip(SubSeq(p, 1, Len(p) - 1))
    ELSE p

\* A key that tells the spellings of a folder apart.
canon_key_exact(p) == p

\* _canon_key
canon_key(p) == IF p = <<>> THEN <<>> ELSE rstrip(normcase(normpath(p)))

\* d.get(k, default)
Get(d, k, default) == IF k \in DOMAIN d THEN d[k] ELSE default

\* int(v or 0), v being a number
IntOr0(v) == IF v = 0 THEN 0 ELSE v

\* The records a caller gives: the path alone, the path and the checked
\* flag, or all the fields.
RegPathOnly == {[path |-> p] : p \in RegPaths}
RegFlagOnly == [path : RegPaths, checked : BOOLEAN]
RegFull ==
    [path : {<<"x">>, <<"y">>}, checked : {TRUE}, files_count : 0..MaxCount,
     updated_count : 0..MaxCount, last_full_scan : Stamps]
\* The lists given to one write: one record of any kind, or two records
\* that hold a path alone.
RegData ==
    {<<r>> : r \in RegPathOnly \cup RegFlagOnly \cup RegFull}
    \cup {<<r1, r2>> : r1 \in RegPathOnly, r2 \in RegPathOnly}

\* The position of the record of key k in the list by, 0: none.  The list
\* stands for the dict by_key in insertion order.
KeyPos(by, k) ==
    LET hits == {i \in 1..Len(by) : canon_key(by[i].path) = k}
    IN IF hits = {} THEN 0 ELSE CHOOSE i \in hits : \A j \in hits : i <= j

\* by_key = {_canon_key(r["path"]): dict(r) for r in cur_roots if r["path"]}
RECURSIVE ByKey(_, _)
ByKey(cur_roots, by) ==
    IF cur_roots = <<>> THEN by
    ELSE LET r == Head(cur_roots)
             pos == KeyPos(by, canon_key(r.path))
         IN IF r.path = <<>> THEN ByKey(Tail(cur_roots), by)
            ELSE IF pos = 0 THEN ByKey(Tail(cur_roots), Append(by, r))
            ELSE ByKey(Tail(cur_roots), [by EXCEPT ![pos] = r])

\* A lookup that forgets the record of the key.
by_key_get_fresh(by, pos, p) == [path |-> p]

\* by_key.get(k, {"path": p}), pos being the position of k in by
by_key_get(by, pos, p) == IF pos = 0 THEN [path |-> p] ELSE by[pos]

\* The body of the loop over the incoming records, for the record r: cur is
\* the record of r's key or a new one, and takes from r the fields r has.
MergeOne(by, r) ==
    LET p == strip(r.path)
        pos == KeyPos(by, canon_key(p))
        old == by_key_get(by, pos, p)
        cur == [path |-> old.path,
                checked |-> Get(r, "checked", Get(old, "checked", TRUE)),
                files_count |->
                    IntOr0(Get(r, "files_count", Get(old, "files_count", 0))),
                updated_count |->
                    IntOr0(Get(r, "updated_count",
                               Get(old, "updated_count", 0))),
                last_full_scan |->
                    Get(r, "last_full_scan",
                        Get(old, "last_full_scan", "None"))]
    IN IF p = <<>> THEN by
       ELSE IF pos = 0 THEN Append(by, cur)
       ELSE [by EXCEPT ![pos] = cur]

RECURSIVE MergeAll(_, _)
MergeAll(by, data) ==
    IF data = <<>> THEN by ELSE MergeAll(MergeOne(by, Head(data)), Tail(data))

\* write_index_roots_json(data), as the list it writes.
write_index_roots(cur_roots, data) == MergeAll(ByKey(cur_roots, <<>>), data)

InitReg ==
    /\ reg = <<>>
    /\ r_merged = FALSE

\* write_index_roots_json({"roots": data})
W_Write(data) ==
    /\ reg' = write_index_roots(reg, data)
    /\ r_merged' =
         (r_merged \/ \E i \in 1..Len(data), j \in 1..Len(reg) :
                         /\ strip(data[i].path) # <<>>
                         /\ canon_key(strip(data[i].path)) =
                              canon_key(reg[j].path)
                         /\ strip(data[i].path) # reg[j].path)
    /\ UNCHANGED notReg

NextReg == \E data \in RegData : W_Write(data)

(***************************************************************************)
(* The passes of IndexWorker.run over one folder whose table row was given *)
(* under one display string or another, followed with the store's meta     *)
(* table and with the slot _on_root_done of IndexBuilderPane.  Both        *)
(* display strings name the same store file.  The folder holds one file,   *)
(* f1, which is there or not when the pass lists the folder.               *)
(***************************************************************************)
\* The display strings under which the folder of root "A" can be given.
SameStoreRoots == {r \in {"A", "A/", "B"} : index_db_path(r) = index_db_path("A")}

\* set_last_indexed_now_for_root(db_path, root), called with nargs positional
\* arguments while meta holds the entry m at time t: the entry after the
\* call, and whether the call raised.  A call with another number of
\* arguments than two raises TypeError before the body runs; the body's
\* INSERT INTO meta(key, value) raises on an entry that is there, key being
\* the primary key.
set_last_indexed_now_for_root(nargs, m, t) ==
    IF nargs # 2 THEN [meta |-> m, raised |-> TRUE]
    ELSE IF m # 0 THEN [meta |-> m, raised |-> TRUE]
    ELSE [meta |-> t, raised |-> FALSE]

InitPass ==
    /\ a_now = 1
    /\ a_store = {}
    /\ a_meta = 0
    /\ a_last = 0
    /\ a_root = "A"
    /\ a_pc = "idle"
    /\ a_stop = FALSE
    /\ a_pass = 0
    /\ a_scanned = 0
    /\ a_completed = FALSE
    /\ a_conn = {}
    /\ a_nostat = {}
    /\ a_metaWas = 0
    /\ a_lastWas = 0

\* One second of wall-clock time passes between two passes.
A_Tick ==
    /\ a_pc = "idle"
    /\ a_now < MaxTime
    /\ a_now' = a_now + 1
    /\ UNCHANGED <<a_store, a_meta, a_last, a_root, a_pc, a_stop, a_pass,
                   a_scanned, a_completed, a_conn, a_nostat, a_metaWas,
                   a_lastWas>>
    /\ UNCHANGED notPass

\* _start_index and the head of run()'s iteration for the root r: the store
\* is opened, current_pass is read from the clock, the root's own row is
\* upserted and counted.
A_BeginRoot(r) ==
    /\ a_pc = "idle"
    /\ a_root' = r
    /\ a_stop' = FALSE
    /\ a_pass' = a_now
    /\ a_conn' = UpsertRows(a_store, r, <<r>>, a_now)
    /\ a_scanned' = 1
    /\ a_nostat' = {}
    /\ a_metaWas' = a_meta
    /\ a_lastWas' = a_last
    /\ a_pc' = "scan"
    /\ UNCHANGED <<a_now, a_store, a_meta, a_last, a_completed>>
    /\ UNCHANGED notPass

\* _cancel_index: self.worker._stop = True
A_Cancel ==
    /\ a_pc \in {"scan", "walked", "finalize"}
    /\ ~a_stop
    /\ a_stop' = TRUE
    /\ UNCHANGED <<a_now, a_store, a_meta, a_last, a_root, a_pc, a_pass,
                   a_scanned, a_completed, a_conn, a_nostat, a_metaWas,
                   a_lastWas>>
    /\ UNCHANGED notPass

\* _scan_dir: the loop over the entries reads _stop as set and returns.
A_ScanSeeStop ==
    /\ a_pc = "scan"
    /\ a_stop
    /\ a_pc' = "walked"
    /\ UNCHANGED <<a_now, a_store, a_meta, a_last, a_root, a_stop, a_pass,
                   a_scanned, a_completed, a_conn, a_nostat, a_metaWas,
                   a_lastWas>>
    /\ UNCHANGED notPass

\* _scan_dir: the body of the loop for the entry f1, whose entry.stat
\* returns (statOk) or raises.  When it raises, size, mtime and ctime are
\* None; in both cases the entry is upserted and counted, and the loop goes
\* on to its end.
A_ScanEntry(statOk) ==
    /\ a_pc = "scan"
    /\ ~a_stop
    /\ a_conn' = UpsertRows(a_conn, a_root, <<a_root, "f1">>, a_pass)
    /\ a_scanned' = a_scanned + 1
    /\ a_nostat' = IF statOk THEN a_nostat ELSE a_nostat \cup {<<a_root, "f1">>}
    /\ a_pc' = "walked"
    /\ UNCHANGED <<a_now, a_store, a_meta, a_last, a_root, a_stop, a_pass,
                   a_completed, a_metaWas, a_lastWas>>
    /\ UNCHANGED notPass

\* _scan_dir: os.scandir(root) lists nothing, f1 is not there.
A_ScanDirEnd ==
    /\ a_pc = "scan"
    /\ ~a_stop
    /\ a_pc' = "walked"
    /\ UNCHANGED <<a_now, a_store, a_meta, a_last, a_root, a_stop, a_pass,
                   a_scanned, a_completed, a_conn, a_nostat, a_metaWas,
                   a_lastWas>>
    /\ UNCHANGED notPass

\* _scan_dir(root) has returned: completed = not self._stop.
A_FinalizeCheck ==
    /\ a_pc = "walked"
    /\ a_completed' = Completed(a_stop)
    /\ a_pc' = "finalize"
    /\ UNCHANGED <<a_now, a_store, a_meta, a_last, a_root, a_stop, a_pass,
                   a_scanned, a_conn, a_nostat, a_metaWas, a_lastWas>>
    /\ UNCHANGED notPass

\* The finalization: when completed, the rows of other passes are deleted,
\* the transaction is committed and set_last_indexed_now_for_root(root) is
\* called, what it raises being swallowed; the connection is closed.
A_FinalizeRoot ==
    /\ a_pc = "finalize"
    /\ a_store' = IF a_completed THEN PruneRows(a_conn, a_pass) ELSE a_store
    /\ a_meta' = IF a_completed
                   THEN set_last_indexed_now_for_root(1, a_meta, a_now).meta
                   ELSE a_meta
    /\ a_conn' = {}
    /\ a_pc' = "emit"
    /\ UNCHANGED <<a_now, a_last, a_root, a_stop, a_pass, a_scanned,
                   a_completed, a_nostat, a_metaWas, a_lastWas>>
    /\ UNCHANGED notPass

\* root_done(root, scanned, updated, elapsed) is emitted.
A_EmitRootDone ==
    /\ a_pc = "emit"
    /\ a_pc' = "slot"
    /\ UNCHANGED <<a_now, a_store, a_meta, a_last, a_root, a_stop, a_pass,
                   a_scanned, a_completed, a_conn, a_nostat, a_metaWas,
                   a_lastWas>>
    /\ UNCHANGED notPass

\* _on_root_done: COL_LAST of the root's row is set to local_now_short() and
\* _write_index_roots_json writes the table to the registry.
A_OnRootDone ==
    /\ a_pc = "slot"
    /\ a_last' = a_now
    /\ a_pc' = "idle"
    /\ UNCHANGED <<a_now, a_store, a_meta, a_root, a_stop, a_pass, a_scanned,
                   a_completed, a_conn, a_nostat, a_metaWas, a_lastWas>>
    /\ UNCHANGED notPass

NextPass ==
    \/ A_Tick
    \/ \E r \in SameStoreRoots : A_BeginRoot(r)
    \/ A_Cancel
    \/ A_ScanSeeStop
    \/ \E statOk \in BOOLEAN : A_ScanEntry(statOk)
    \/ A_ScanDirEnd
    \/ A_FinalizeCheck
    \/ A_FinalizeRoot
    \/ A_EmitRootDone
    \/ A_OnRootDone

(***************************************************************************)
(* WindowsSearchProvider.search with its fallback, and CrawlProvider.search *)
(* with its walker threads: one thread per root, all appending to the one   *)
(* list results.  A hit of the crawl is <<root, i>>, the i-th match under   *)
(* the root; a hit of the host search is <<"win", i>>.                      *)
(***************************************************************************)
\* The most matching entries a root holds.
MaxMatches == 2
\* The largest limit a caller gives.
MaxCrawlLimit == 2

CrawlRoots == {"A", "B"}
\* allowed_roots: None, one root, two roots.
AllowedLists == {<<>>, <<"A">>, <<"A", "B">>}
\* CrawlProvider._default_roots(): the home directory.
default_roots == <<"H">>

\* roots or self._default_roots()
crawl_roots(roots) == IF roots = <<>> THEN default_roots ELSE roots

\* A fallback that asks the crawl for one hit more.
fallback_limit_more(limit) == limit + 1

\* The limit the fallback gives to CrawlProvider.search: limit=limit
fallback_limit(limit) == limit

SeqToSet(q) == {q[i] : i \in 1..Len(q)}

\* The threads search() starts: one per root, at the head of os.walk.
StartThreads(roots) ==
    [r \in SeqToSet(roots) |-> [pc |-> "walk", n |-> 0]]

InitCrawl ==
    /\ k_pc = "idle"
    /\ k_via = "crawl"
    /\ k_limit = 1
    /\ k_allowed = <<>>
    /\ k_hits = <<>>
    /\ k_croots = <<>>
    /\ k_climit = 0
    /\ k_thr = <<>>
    /\ k_results = <<>>
    /\ k_out = <<>>
    /\ k_raised = FALSE
    /\ k_failed = FALSE

\* WindowsSearchProvider().search(query, limit, allowed_roots) is called.
Win_Search(limit, allowed) ==
    /\ k_pc \in {"idle", "returned"}
    /\ k_pc' = "win"
    /\ k_via' = "win"
    /\ k_limit' = limit
    /\ k_allowed' = allowed
    /\ k_hits' = <<>>
    /\ k_croots' = <<>>
    /\ k_climit' = 0
    /\ k_thr' = <<>>
    /\ k_results' = <<>>
    /\ k_out' = <<>>
    /\ k_raised' = FALSE
    /\ k_failed' = FALSE
    /\ UNCHANGED notCrawl

\* The loop over the record set: one more hit (SELECT TOP limit).
Win_Row ==
    /\ k_pc = "win"
    /\ Len(k_hits) < k_limit
    /\ k_hits' = Append(k_hits, <<"win", Len(k_hits) + 1>>)
    /\ UNCHANGED <<k_pc, k_via, k_limit, k_allowed, k_croots, k_climit, k_thr,
                   k_results, k_out, k_raised, k_failed>>
    /\ UNCHANGED notCrawl

\* The record set is at its end: return hits.
Win_Return ==
    /\ k_pc = "win"
    /\ k_out' = k_hits
    /\ k_pc' = "returned"
    /\ UNCHANGED <<k_via, k_limit, k_allowed, k_hits, k_croots, k_climit,
                   k_thr, k_results, k_raised, k_failed>>
    /\ UNCHANGED notCrawl

\* Anything inside the try raises (Dispatch, Open, the query, a field of a
\* row): except Exception, CrawlProvider(roots=allowed_roots).search(query,
\* limit=limit) is called and its threads are started.
Win_Fails ==
    /\ k_pc = "win"
    /\ k_failed' = TRUE
    /\ k_croots' = crawl_roots(k_allowed)
    /\ k_climit' = fallback_limit(k_limit)
    /\ k_thr' = StartThreads(crawl_roots(k_allowed))
    /\ k_results' = <<>>
    /\ k_pc' = "crawl"
    /\ UNCHANGED <<k_via, k_limit, k_allowed, k_hits, k_out, k_raised>>
    /\ UNCHANGED notCrawl

\* CrawlProvider(roots).search(query, limit) is called by itself.
Crawl_Search(limit, roots) ==
    /\ k_pc \in {"idle", "returned"}
    /\ k_pc' = "crawl"
    /\ k_via' = "crawl"
    /\ k_limit' = limit
    /\ k_allowed' = roots
    /\ k_hits' = <<>>
    /\ k_croots' = crawl_roots(roots)
    /\ k_climit' = limit
    /\ k_thr' = StartThreads(crawl_roots(roots))
    /\ k_results' = <<>>
    /\ k_out' = <<>>
    /\ k_raised' = FALSE
    /\ k_failed' = FALSE
    /\ UNCHANGED notCrawl

\* _walk of root r finds a match: results.append(FileHit(...))
Walk_Append(r) ==
    /\ k_pc = "crawl"
    /\ r \in DOMAIN k_thr
    /\ k_thr[r].pc = "walk"
    /\ k_thr[r].n < MaxMatches
    /\ k_results' = Append(k_results, <<r, k_thr[r].n + 1>>)
    /\ k_thr' = [k_thr EXCEPT ![r] = [pc |-> "appended", n |-> @.n + 1]]
    /\ UNCHANGED <<k_pc, k_via, k_limit, k_allowed, k_hits, k_croots, k_climit,
                   k_out, k_raised, k_failed>>
    /\ UNCHANGED notCrawl

\* _walk of root r, after its append: if len(results) >= limit: return
Walk_Check(r) ==
    /\ k_pc = "crawl"
    /\ r \in DOMAIN k_thr
    /\ k_thr[r].pc = "appended"
    /\ k_thr' = [k_thr EXCEPT ![r].pc =
                    IF Len(k_results) >= k_climit THEN "done" ELSE "walk"]
    /\ UNCHANGED <<k_pc, k_via, k_limit, k_allowed, k_hits, k_croots, k_climit,
                   k_results, k_out, k_raised, k_failed>>
    /\ UNCHANGED notCrawl

\* _walk of root r: os.walk(root) is exhausted.
Walk_End(r) ==
    /\ k_pc = "crawl"
    /\ r \in DOMAIN k_thr
    /\ k_thr[r].pc = "walk"
    /\ k_thr' = [k_thr EXCEPT ![r].pc = "done"]
    /\ UNCHANGED <<k_pc, k_via, k_limit, k_allowed, k_hits, k_croots, k_climit,
                   k_results, k_out, k_raised, k_failed>>
    /\ UNCHANGED notCrawl

\* Every thread is joined: return results.
Crawl_Return ==
    /\ k_pc = "crawl"
    /\ \A r \in DOMAIN k_thr : k_thr[r].pc = "done"
    /\ k_out' = k_results
    /\ k_pc' = "returned"
    /\ UNCHANGED <<k_via, k_limit, k_allowed, k_hits, k_croots, k_climit,
                   k_thr, k_results, k_raised, k_failed>>
    /\ UNCHANGED notCrawl

NextCrawl ==
    \/ \E limit \in 1..MaxCrawlLimit, allowed \in AllowedLists :
          Win_Search(limit, allowed)
    \/ Win_Row
    \/ Win_Return
    \/ Win_Fails
    \/ \E limit \in 1..MaxCrawlLimit, roots \in AllowedLists :
          Crawl_Search(limit, roots)
    \/ \E r \in CrawlRoots \cup SeqToSet(default_roots) : Walk_Append(r)
    \/ \E r \in CrawlRoots \cup SeqToSet(default_roots) : Walk_Check(r)
    \/ \E r \in CrawlRoots \cup SeqToSet(default_roots) : Walk_End(r)
    \/ Crawl_Return

(***************************************************************************)
(* FileSearchPane: run_search, cancel_search and the slot _on_chunk that   *)
(* run_search connects to the chunk signal of every worker it starts.  A   *)
(* worker is followed from chunk to chunk; a chunk holds one row.          *)
(***************************************************************************)
\* The most searches started.
MaxSearches == 2
\* The most chunks one worker emits.
MaxChunks == 2

Searchers == 1..MaxSearches

InitFind ==
    /\ f_model = <<>>
    /\ f_worker = 0
    /\ f_uworker = 0
    /\ f_w = [w \in Searchers |-> [pc |-> "new", abort |-> FALSE, n |-> 0]]
    /\ f_cancelled = {}

\* The workers started so far.
Started == {w \in Searchers : f_w[w].pc # "new"}

\* run_search: the model is cleared, a SearchWorker is constructed, its chunk
\* signal is connected to _on_chunk, it is kept in self._worker and started.
\* Nothing is done about the worker of an earlier search.
Find_RunSearch ==
    /\ Cardinality(Started) < MaxSearches
    /\ LET w == Cardinality(Started) + 1
       IN /\ f_model' = <<>>
          /\ f_uworker' = w
          /\ f_w' = [f_w EXCEPT ![w].pc = "running"]
    /\ UNCHANGED <<f_worker, f_cancelled>>
    /\ UNCHANGED notFind

\* The worker a call of cancel_search aborts: self.worker, if it is not None
\* and is running; 0: none.
cancel_target(worker, w) ==
    IF worker # 0 /\ w[worker].pc = "running" THEN worker ELSE 0

\* cancel_search, while the worker run_search started last is running.
Find_CancelSearch ==
    /\ f_uworker # 0
    /\ f_w[f_uworker].pc = "running"
    /\ f_uworker \notin f_cancelled
    /\ LET t == cancel_target(f_worker, f_w)
       IN f_w' = IF t = 0 THEN f_w ELSE [f_w EXCEPT ![t].abort = TRUE]
    /\ f_cancelled' = f_cancelled \cup {f_uworker}
    /\ UNCHANGED <<f_model, f_worker, f_uworker>>
    /\ UNCHANGED notFind

\* Worker w emits a chunk and _on_chunk appends it to the model.
Find_Chunk(w) ==
    /\ f_w[w].pc = "running"
    /\ ~f_w[w].abort
    /\ f_w[w].n < MaxChunks
    /\ f_w' = [f_w EXCEPT ![w].n = @ + 1]
    /\ f_model' = Append(f_model, w)
    /\ UNCHANGED <<f_worker, f_uworker, f_cancelled>>
    /\ UNCHANGED notFind

\* Worker w emits done and run() returns, its _abort set or not.
Find_Done(w) ==
    /\ f_w[w].pc = "running"
    /\ f_w' = [f_w EXCEPT ![w].pc = "finished"]
    /\ UNCHANGED <<f_model, f_worker, f_uworker, f_cancelled>>
    /\ UNCHANGED notFind

NextFind ==
    \/ Find_RunSearch
    \/ Find_CancelSearch
    \/ \E w \in Searchers : Find_Chunk(w)
    \/ \E w \in Searchers : Find_Done(w)

(***************************************************************************)
(* IndexedProvider.search over the store files of several roots.  A store  *)
(* file is made by the first pass over its root and stays on disk when the *)
(* root is unchecked or removed in the Index Builder.  Every row matches   *)
(* the query here; a hit is the root of its store and its mtime.           *)
(***************************************************************************)
StoreRoots == {"A", "B"}
RegStates == {"enabled", "disabled", "absent"}

\* allowed_roots: None, or a list of roots.
AllowedRootLists == {<<>>, <<"A">>, <<"B">>, <<"A", "B">>, <<"B", "A">>}

XHit(r, m) == [root |-> r, mtime |-> m]

\* SELECT ... FROM files ORDER BY mtime DESC LIMIT n, on the store of r, the
\* loop over its rows ending when results holds limit hits.
RECURSIVE StoreRows(_, _, _)
StoreRows(r, ms, n) ==
    IF n <= 0 \/ ms = {} THEN <<>>
    ELSE LET m == CHOOSE x \in ms : \A y \in ms : y <= x
         IN <<XHit(r, m)>> \o StoreRows(r, ms \ {m}, n - 1)

\* _iter_db_paths(allowed_roots) without the glob: the hashed paths of the
\* allowed roots that exist, in the order of allowed_roots.  A root without
\* a file at its hashed path is looked for in the other stores by the root
\* of their rows; a store holds the rows of its own root, so none is found.
iter_db_paths(allowed, st) ==
    SelectSeq(allowed, LAMBDA r : st[r] # {})

\* The orders in which glob lists the store files on disk.
GlobOrders(st) ==
    LET have == {r \in StoreRoots : st[r] # {}}
    IN {q \in UNION {[1..n -> have] : n \in 0..Cardinality(have)} :
          /\ Len(q) = Cardinality(have)
          /\ \A i, j \in 1..Len(q) : i # j => q[i] # q[j]}

\* The loop of search() over the store files dbs, results holding the hits
\* so far: each store gives its newest limit - len(results) rows, and the
\* loop ends when results holds limit hits.
RECURSIVE search_stores(_, _, _, _)
search_stores(dbs, st, results, limit) ==
    IF dbs = <<>> THEN results
    ELSE LET r == Head(dbs)
             more == results \o StoreRows(r, st[r], limit - Len(results))
         IN IF Len(more) >= limit THEN more
            ELSE search_stores(Tail(dbs), st, more, limit)

InitStores ==
    /\ x_reg = [r \in StoreRoots |-> "absent"]
    /\ x_store = [r \in StoreRoots |-> {}]
    /\ x_pc = "build"
    /\ x_allowed = <<>>
    /\ x_limit = 0
    /\ x_hits = <<>>

\* A root is added to the registry, checked or unchecked, or removed from it.
X_SetRegistry(r, st) ==
    /\ x_pc = "build"
    /\ x_reg[r] # st
    /\ x_reg' = [x_reg EXCEPT ![r] = st]
    /\ UNCHANGED <<x_store, x_pc, x_allowed, x_limit, x_hits>>
    /\ UNCHANGED notStores

\* A pass over the enabled root r upserts a row with mtime m into its store.
X_Index(r, m) ==
    /\ x_pc = "build"
    /\ x_reg[r] = "enabled"
    /\ m \notin x_store[r]
    /\ x_store' = [x_store EXCEPT ![r] = @ \cup {m}]
    /\ UNCHANGED <<x_reg, x_pc, x_allowed, x_limit, x_hits>>
    /\ UNCHANGED notStores

\* IndexedProvider().search(query, limit, allowed_roots)
X_Search(allowed, limit) ==
    /\ x_pc = "build"
    /\ x_allowed' = allowed
    /\ x_limit' = limit
    /\ \E dbs \in (IF allowed = <<>> THEN GlobOrders(x_store)
                   ELSE {iter_db_paths(allowed, x_store)}) :
          x_hits' = search_stores(dbs, x_store, <<>>, limit)
    /\ x_pc' = "searched"
    /\ UNCHANGED <<x_reg, x_store>>
    /\ UNCHANGED notStores

NextStores ==
    \/ \E r \in StoreRoots, st \in RegStates : X_SetRegistry(r, st)
    \/ \E r \in StoreRoots, m \in 1..MaxMtime : X_Index(r, m)
    \/ \E allowed \in AllowedRootLists, limit \in 0..MaxQLimit :
          X_Search(allowed, limit)

(***************************************************************************)
(* The counters of a root from the scan to the registry file and back:     *)
(* _add_folders makes the root's record, _on_root_done sets the cells of   *)
(* its table row and has _write_index_roots_json write the table, and      *)
(* read_index_roots_json reads the file.                                   *)
(***************************************************************************)
\* The most rows the root's store holds, and the most upserts of a pass.
MaxRows == 4

\* The record _collect_table_roots makes of the root's table row.
table_record(checked, files, updated, last) ==
    [path |-> <<"x">>, checked |-> checked, files |-> files,
     updated |-> updated, last_full_scan |-> last, status |-> "Idle"]

\* The record read_index_roots_json makes of the record r of the file.
read_record(r) ==
    [path |-> strip(r.path),
     checked |-> Get(r, "checked", TRUE),
     files_count |-> IntOr0(Get(r, "files_count", 0)),
     updated_count |-> IntOr0(Get(r, "updated_count", 0)),
     last_full_scan |-> Get(r, "last_full_scan", "None")]

\* read_index_roots_json()["roots"], for a file without blank or repeated
\* paths.
read_index_roots(file) == [i \in 1..Len(file) |-> read_record(file[i])]

InitTrip ==
    /\ t_file = <<>>
    /\ t_checked = TRUE
    /\ t_rows = 0
    /\ t_upd = 0
    /\ t_pc = "none"
    /\ t_read = <<>>

\* _add_folders: the folder is not in the registry yet; its record is written
\* with write_index_roots_json and the table is loaded from the file.
T_AddFolder ==
    /\ t_pc = "none"
    /\ t_file' = write_index_roots(t_file,
                    <<[path |-> <<"x">>, checked |-> TRUE, files_count |-> 0,
                       updated_count |-> 0, last_full_scan |-> "None"]>>)
    /\ t_pc' = "row"
    /\ UNCHANGED <<t_checked, t_rows, t_upd, t_read>>
    /\ UNCHANGED notTrip

\* The user checks or unchecks the row.
T_Toggle ==
    /\ t_pc # "none"
    /\ t_checked' = ~t_checked
    /\ UNCHANGED <<t_file, t_rows, t_upd, t_pc, t_read>>
    /\ UNCHANGED notTrip

\* _on_root_done(root, scanned, updated, secs) after a pass that left n rows
\* in the store and reported u upserts: the cells of the row are set and
\* _write_index_roots_json writes the table to the file.
T_OnRootDone(n, u) ==
    /\ t_pc # "none"
    /\ t_rows' = n
    /\ t_upd' = u
    /\ t_file' = <<table_record(t_checked, n, u, "t1")>>
    /\ t_pc' = "done"
    /\ UNCHANGED <<t_checked, t_read>>
    /\ UNCHANGED notTrip

\* read_index_roots_json()
T_Read ==
    /\ t_pc \in {"done", "read"}
    /\ t_read' = read_index_roots(t_file)
    /\ t_pc' = "read"
    /\ UNCHANGED <<t_file, t_checked, t_rows, t_upd>>
    /\ UNCHANGED notTrip

NextTrip ==
    \/ T_AddFolder
    \/ T_Toggle
    \/ \E n \in 1..MaxRows, u \in 0..MaxRows : T_OnRootDone(n, u)
    \/ T_Read

Init ==
    InitScan /\ InitPane /\ InitSearch /\ InitQuery /\ InitReg /\ InitPass /\
    InitCrawl /\ InitFind /\ InitStores /\ InitTrip

SpecScan == Init /\ [][NextScan]_vars

SpecPane == Init /\ [][NextPane]_vars

SpecSearch == Init /\ [][NextSearch]_vars

SpecQuery == Init /\ [][NextQuery]_vars

SpecReg == Init /\ [][NextReg]_vars

SpecPass == Init /\ [][NextPass]_vars

SpecCrawl == Init /\ [][NextCrawl]_vars

SpecFind == Init /\ [][NextFind]_vars

SpecStores == Init /\ [][NextStores]_vars

SpecTrip == Init /\ [][NextTrip]_vars

(***************************************************************************)
(* The claims about IndexWorker.run, under SpecScan.                       *)
(***************************************************************************)
\* The committed rows of the root the loop is at.
CurRows == RowsOf(store[index_db_path(CurRoot)], CurRoot)

\* A pass has ended (its connection is closed) and root_done is about to be
\* emitted.
PassEnded == w_pc = "emit"

\* C1: once a pass has read the stop flag as set, no step deletes a row from
\* any store: every (root, path) key with a committed row keeps one.
C1_NoPruneAfterStopSeen ==
    [][sawStop =>
         \A s \in Stores : KeysOf(store[s]) \subseteq KeysOf(store'[s])]_vars

\* C1, its case: a pass that saw the stop flag has ended while the store
\* holds rows of an earlier pass, which a pruning would have deleted.
C1_Witness ==
    /\ PassEnded
    /\ sawStop
    /\ \E x \in CurRows : x.pass_id # w_pass

\* C2: with N rows after a completed pass and exactly one file deleted on disk
\* between that pass and the next one, the next pass leaves N-1 rows when it
\* completes and N rows when it is cancelled.
C2_StalePruning ==
    (/\ PassEnded
     /\ lastN[CurRoot] > 0
     /\ delsBefore = 1
     /\ delsSince[CurRoot] = 1)
    => Cardinality(CurRows) = (IF w_completed THEN lastN[CurRoot] - 1
                                              ELSE lastN[CurRoot])

\* C3: when a pass has completed without cancellation, every committed row of
\* its root carries the pass id of that pass.
C3_RowsCarryCurrentPass ==
    (PassEnded /\ w_completed) => \A x \in CurRows : x.pass_id = w_pass

\* C3, its case: a completed pass that followed an earlier pass of another
\* generation and a deletion on disk, so that a stale row was there to purge.
C3_Witness ==
    /\ PassEnded
    /\ w_completed
    /\ lastGen[CurRoot] \in 1..(w_pass - 1)
    /\ delsBefore >= 1
    /\ Cardinality(CurRows) >= 2

\* C4: the generation of a pass is newer than every generation used before
\* for its root.
C4_GenerationFresh ==
    w_pc \in {"scan", "finalize", "emit"} => w_pass > lastGen[CurRoot]

\* C5: a pass over a tree unchanged since the last completed pass leaves the
\* same number of rows and reports updated_count = 0.
C5_IdempotentRescan ==
    (/\ PassEnded
     /\ w_completed
     /\ lastN[CurRoot] > 0
     /\ delsBefore = 0
     /\ delsSince[CurRoot] = 0)
    => (Cardinality(CurRows) = lastN[CurRoot] /\ w_updated = 0)

\* C7: when a pass ends cancelled, every entry it upserted is committed: its
\* row is in the store with the pass id of the pass.
C7_CancelKeepsUpserts ==
    (PassEnded /\ ~w_completed)
    => \A p \in upserted :
         Row(CurRoot, p, w_pass) \in store[index_db_path(CurRoot)]

\* C8: when a root raised and error was emitted, the worker that was not
\* stopped has gone on to every requested root by the time it returns.
C8_ErrorContinues ==
    (/\ w_pc = "finished"
     /\ ~w_stop
     /\ \E i \in 1..Len(events) : events[i].ev = "error")
    => \A k \in 1..Len(w_roots) :
         \E i \in 1..Len(events) :
            events[i].ev = "root_started" /\ events[i].root = w_roots[k]

(***************************************************************************)
(* The claims about IndexBuilderPane, under SpecPane.                      *)
(***************************************************************************)
\* The workers that are inside a pass, writing the store of a root.
Scanning == {w \in Workers : pw[w].pc = "scanning"}
ScannedRoot(w) == pw[w].roots[pw[w].idx]

\* C6: no two workers are inside a pass over the same root's store at the
\* same time.
C6_OneScanPerRoot ==
    \A v, w \in Scanning :
       v # w => index_db_path(ScannedRoot(v)) # index_db_path(ScannedRoot(w))

(***************************************************************************)
(* The claims about SearchWorker.run, under SpecSearch.                    *)
(***************************************************************************)
\* run() has returned after emitting done.
SearchEnded == s_pc = "finished"

\* C9: every list delivered by done holds at most K rows, K >= 0 being the
\* limit the search was started with.
C9_CapEnforced ==
    s_lim >= 0 => \A i \in 1..Len(s_done) : Len(s_done[i]) <= s_lim

\* C9, its case: a search with all three providers enabled has ended after
\* gathering more rows than the limit allows.
C9_Witness ==
    /\ SearchEnded
    /\ s_lim >= 0
    /\ \A st \in DOMAIN s_use : s_use[st]
    /\ Len(s_rows) > s_lim

\* The canonical key of a path as the claim words it: letters case-folded,
\* every run of separators one separator, no separator at the end.  It is
\* computed position by position, apart from the functions add_row uses.
CanonicalKey(p) ==
    LET q == [i \in 1..Len(p) |-> IF IsSep(p[i]) THEN "|" ELSE Lower(p[i])]
        kept == SelectSeq([i \in 1..Len(p) |-> i],
                          LAMBDA i : ~(q[i] = "|" /\
                                       (i = Len(p) \/ q[i + 1] = "|")))
    IN [j \in 1..Len(kept) |-> q[kept[j]]]

\* The place of a source in the priority order of the providers.
Rank(source) == IF source = "Index" THEN 1
                ELSE IF source = "Windows" THEN 2 ELSE 3

\* C10: a list delivered by done holds no two rows with the same canonical
\* key, and no row that add_row turned down for the key of a delivered row
\* came from a provider of higher priority than the delivered row's.
C10_DedupAcrossProviders ==
    \A i \in 1..Len(s_done) :
       /\ \A j, k \in 1..Len(s_done[i]) :
             j # k => CanonicalKey(s_done[i][j].path) #
                      CanonicalKey(s_done[i][k].path)
       /\ \A j \in 1..Len(s_done[i]) : \A d \in s_dropped :
             CanonicalKey(d.path) = CanonicalKey(s_done[i][j].path)
               => Rank(s_done[i][j].source) <= Rank(d.source)

\* C10, its case: a search has ended whose result holds a row for a file that
\* a provider of lower priority reported too, under another spelling.
C10_Witness ==
    /\ SearchEnded
    /\ \E j \in 1..Len(s_done[1]) : \E d \in s_dropped :
          /\ CanonicalKey(d.path) = CanonicalKey(s_done[1][j].path)
          /\ d.path # s_done[1][j].path
          /\ Rank(d.source) > Rank(s_done[1][j].source)

\* C11: once a read of the abort flag returned True, no chunk is emitted any
\* more, and when run() has returned it has emitted done, once, with the rows
\* gathered (up to the limit), and no error.
C11_NoChunkAfterAbortSeen ==
    /\ s_abortSeenAt >= 0 => Len(s_chunks) = s_abortSeenAt
    /\ (SearchEnded /\ s_abortSeenAt >= 0)
         => s_done = <<done_rows(s_rows, Lim(s_lim))>>

\* The stages whose provider raised.
Raised == {st \in DOMAIN s_log : s_log[st] = "raised"}

\* C12: when run() has returned after a provider raised, there is one error
\* event per provider that raised, done was emitted once with the rows
\* gathered (up to the limit), none of them from a provider that raised, and
\* every enabled provider was run unless the abort flag was seen set or the
\* limit was reached.
C12_ProviderErrorIsAdvisory ==
    (SearchEnded /\ Raised # {})
    => /\ s_errors = Cardinality(Raised)
       /\ s_done = <<done_rows(s_rows, Lim(s_lim))>>
       /\ \A i \in 1..Len(s_rows) :
             \A st \in Raised : s_rows[i].source # SourceOf(st)
       /\ (s_abortSeenAt < 0 /\ Len(s_rows) < Lim(s_lim))
            => \A st \in DOMAIN s_use : s_use[st] => s_log[st] # "no"

\* C12, its case: a search has ended in which the index provider raised and
\* a provider after it delivered a row of the result.
C12_Witness ==
    /\ SearchEnded
    /\ s_log["qi"] = "raised"
    /\ s_errors = 1
    /\ \E i \in 1..Len(s_done[1]) : s_done[1][i].source # "Index"

\* C13: the list delivered by done is the head of the rows gathered, its rows
\* stand in the priority order of their providers, and the rows of one
\* provider stand in the order in which the provider handed them over.
C13_PriorityOrderKept ==
    \A d \in 1..Len(s_done) :
       /\ Len(s_done[d]) <= Len(s_rows)
       /\ \A i \in 1..Len(s_done[d]) : s_done[d][i] = s_rows[i]
       /\ \A i, j \in 1..Len(s_done[d]) :
             i < j =>
               /\ Rank(s_done[d][i].source) <= Rank(s_done[d][j].source)
               /\ s_done[d][i].source = s_done[d][j].source
                    => s_rowHit[i] < s_rowHit[j]

\* C13, its case: a search has ended whose result holds rows of two
\* providers.
C13_Witness ==
    /\ SearchEnded
    /\ \E i, j \in 1..Len(s_done[1]) :
          s_done[1][i].source # s_done[1][j].source

(***************************************************************************)
(* The claims about IndexedProvider.search, under SpecQuery.               *)
(***************************************************************************)
\* The names of the files search() returned.
HitNames == {q_hits[i].name : i \in 1..Len(q_hits)}

\* C14: for the query motor* over a store that holds motorhousing.sldprt and
\* housingmotor.pdf, with a limit that cuts nothing off, the first is
\* returned and the second is not.
C14_WildcardPrefix ==
    (/\ q_pc = "searched"
     /\ q_query = Query_motorStar
     /\ q_files[Name_motorhousing] > 0
     /\ q_files[Name_housingmotor] > 0
     /\ q_limit >= Cardinality({n \in QNames : q_files[n] > 0}))
    => /\ Name_motorhousing \in HitNames
       /\ Name_housingmotor \notin HitNames

Counters(r) == <<r.files_count, r.updated_count, r.last_full_scan>>

\* C16: in every state the registry reaches, the write of one record that
\* holds a path and a checked flag alone (which W_Write is free to do next)
\* leaves the files_count, updated_count and last_full_scan of every stored
\* record as they were, and leaves the record of every other root as it
\* was, at its place in the list.
C16_FlagUpsertKeepsCounters ==
    \A d \in RegFlagOnly :
        LET out == write_index_roots(reg, <<d>>)
        IN /\ Len(out) >= Len(reg)
           /\ \A j \in 1..Len(reg) :
                 /\ out[j].path = reg[j].path
                 /\ Counters(out[j]) = Counters(reg[j])
                 /\ CanonicalKey(reg[j].path) # CanonicalKey(strip(d.path))
                      => out[j] = reg[j]

\* A record that holds counters and a stamp has been unchecked, which a
\* write of its path and flag alone does, next to the record of another
\* root that holds counters too.
C16_Witness ==
    \E i, j \in 1..Len(reg) :
        /\ i # j
        /\ ~reg[i].checked
        /\ Counters(reg[i]) = <<MaxCount, MaxCount, "t1">>
        /\ Counters(reg[j]) = <<MaxCount, MaxCount, "t1">>

(***************************************************************************)
(* The claims about the passes over one folder, under SpecPass.            *)
(***************************************************************************)
\* C17: the finalization of a completed pass for the root R leaves in the
\* store, of the rows of R, exactly those whose generation is not older than
\* the pass, and leaves the rows recorded under every other root value of
\* the same store as they were.
C17_PruneTouchesOnlyItsRoot ==
    [][(a_pc = "finalize" /\ a_pc' = "emit" /\ a_completed) =>
          /\ RowsOf(a_store', a_root) =
                {x \in RowsOf(a_conn, a_root) : x.pass_id >= a_pass}
          /\ \A r \in SameStoreRoots \ {a_root} :
                RowsOf(a_store', r) = RowsOf(a_conn, r)]_vars

\* C18: when root_done is about to be emitted for a completed pass, the
\* store's meta entry last_full_scan holds the time of the completion; this
\* for every completed pass.
C18_StampedBeforeRootDone ==
    (a_pc = "emit" /\ a_completed) => a_meta = a_now

\* C19: once a cancelled pass has ended and the slot for its root_done has
\* run, the store's meta entry last_full_scan and the last_full_scan of the
\* root's registry record are what they were when the pass began.
C19_CancelKeepsLastFullScan ==
    (a_pc = "idle" /\ a_pass > 0 /\ ~a_completed) =>
        /\ a_meta = a_metaWas
        /\ a_last = a_lastWas

\* C20: when the walk has ended, an entry whose stat raised has been counted
\* in scanned_count, and the rows of its path are the ones the store held
\* when the pass began: it was not upserted.
C20_StatFailureNotUpserted ==
    (a_pc = "walked" /\ a_nostat # {}) =>
        /\ a_scanned = 1 + Cardinality(a_nostat)
        /\ \A p \in a_nostat :
              {x \in a_conn : x.path = p} = {x \in a_store : x.path = p}

(***************************************************************************)
(* The end of IndexWorker.run, under SpecScan.                             *)
(***************************************************************************)
\* C21: when run() has returned, the signals it emitted hold all_done exactly
\* once, and all_done is the last of them, after every root_done.
C21_AllDoneExactlyOnce ==
    w_pc = "finished" =>
        /\ Cardinality({i \in 1..Len(events) : events[i].ev = "all_done"}) = 1
        /\ events[Len(events)].ev = "all_done"

(***************************************************************************)
(* The claims about the host search and the crawl, under SpecCrawl.        *)
(***************************************************************************)
\* C22: a call of WindowsSearchProvider.search during which the host search
\* failed has returned, not raised; what it returned is the list of a crawl
\* that was given the caller's limit and, when the caller named allowed
\* roots, those roots.
C22_FallbackToCrawl ==
    (k_pc = "returned" /\ k_via = "win" /\ k_failed) =>
        /\ ~k_raised
        /\ k_out = k_results
        /\ k_climit = k_limit
        /\ k_allowed # <<>> => k_croots = k_allowed
        /\ \A i \in 1..Len(k_out) : k_out[i][1] \in SeqToSet(k_croots)

\* The host search failed after it had handed over a hit, and the call
\* returned hits of the crawl over the two allowed roots.
C22_Witness ==
    /\ k_pc = "returned"
    /\ k_via = "win"
    /\ k_failed
    /\ k_hits # <<>>
    /\ k_allowed = <<"A", "B">>
    /\ \E i, j \in 1..Len(k_out) : k_out[i][1] = "A" /\ k_out[j][1] = "B"

\* C28: the list CrawlProvider.search returns holds at most limit hits,
\* however the steps of its walker threads interleave.
C28_CrawlWithinLimit ==
    (k_pc = "returned" /\ k_via = "crawl") => Len(k_out) <= k_limit

(***************************************************************************)
(* The streaming of SearchWorker.run, under SpecSearch.                    *)
(***************************************************************************)
\* The rows of a list of chunks, in the order of their emission.
RECURSIVE Concat(_)
Concat(chunks) ==
    IF chunks = <<>> THEN <<>> ELSE Head(chunks) \o Concat(Tail(chunks))

\* C27: when a run during which abort() was never called has ended, the rows
\* of its chunks, in order, are the list it delivered on done.
C27_ChunksMakeUpDone ==
    (SearchEnded /\ ~s_abort /\ s_errors = 0) =>
        /\ Len(s_done) = 1
        /\ Concat(s_chunks) = s_done[1]

(***************************************************************************)
(* The claims about FileSearchPane, under SpecFind.                        *)
(***************************************************************************)
\* C26: a worker started by run_search that was running when cancel_search
\* was invoked has its _abort flag set, and so emits no chunk afterwards.
C26_CancelSetsAbort ==
    \A w \in f_cancelled : f_w[w].abort

\* C29: every row of the result model was produced by the worker of the
\* search started last, which cleared the model.
C29_OnlyRowsOfNewSearch ==
    \A i \in 1..Len(f_model) : f_model[i] = f_uworker

(***************************************************************************)
(* The end of a worker as the pane sees it, under SpecPane.                *)
(***************************************************************************)
\* No worker is running and no signal is waiting for the GUI thread: nothing
\* happens any more unless the user clicks.
PaneQuiet ==
    /\ queue = <<>>
    /\ \A w \in Workers : pw[w].pc \in {"new", "finished"}

\* C30: once every worker has terminated and its signals have been handled,
\* _indexing_roots holds none of the workers' roots and Start is enabled.
C30_RootsReleasedAtEnd ==
    PaneQuiet => (p_indexing = {} /\ p_start)

(***************************************************************************)
(* The claims about the index-store provider over several stores, under    *)
(* SpecStores.                                                             *)
(***************************************************************************)
\* C23: every hit search() returns comes from the store of a root that the
\* registry holds as enabled and, when allowed_roots is given, that is one
\* of the allowed roots.
C23_OnlyEnabledStores ==
    x_pc = "searched" =>
        \A i \in 1..Len(x_hits) :
            /\ x_reg[x_hits[i].root] = "enabled"
            /\ x_allowed # <<>> => x_hits[i].root \in SeqToSet(x_allowed)

\* C24: the list search() returns holds at most limit hits and no hit of it
\* comes before a hit with a newer mtime, also when the hits come from the
\* stores of two roots.
C24_NewestFirstAcrossStores ==
    x_pc = "searched" =>
        /\ Len(x_hits) <= x_limit
        /\ \A i, j \in 1..Len(x_hits) :
              i < j => x_hits[i].mtime >= x_hits[j].mtime

(***************************************************************************)
(* The counters of the registry after a scan, under SpecTrip.              *)
(***************************************************************************)
\* C25: when root_done has been handled and the registry has been read, the
\* root's record as read holds the store's row count as files_count and the
\* count the scan reported as updated_count.
C25_CountersSurviveRoundTrip ==
    t_pc = "read" =>
        /\ Len(t_read) = 1
        /\ t_read[1].files_count = t_rows
        /\ t_read[1].updated_count = t_upd

====
